---- MODULE Spec2Model ----
(***************************************************************************)
(* A model of the coordination runtime's three mechanisms as the           *)
(* repository defines them:                                                *)
(*   ATSLP  task scheduling      (Coq development, src/unnamed/part_017)   *)
(*   HCMPL  hierarchical cache   (Isabelle theory,                         *)
(*                                src/formal_verification/hcmpl_isabelle.thy)*)
(*   CALK   collaborative learning (Coq development,                       *)
(*                                src/submission_package/calk_coq.v)       *)
(* An option value is a sequence of length 0 (None) or 1 (Some x).         *)
(***************************************************************************)
EXTENDS Integers, Sequences, FiniteSets, TLC

VARIABLES
    agents,     \* the registry: a list of Agent records, in registration order
    tasks,      \* task id -> the task's record, for every task submitted so far
    now,        \* the clock deadlines are compared with
    cache,      \* HierarchicalCache: level -> key -> CacheItem option
    written,    \* history: key -> the value last put, None after an invalidate
    invalidated,\* history: key -> "no", or what its last invalidate found
                \* ("stored", "empty") when it was not put again since
    lastGet,    \* the last get call: its key, what it returned, and the
                \* key's history at the call
    capacity,   \* configuration: the per-level capacity of the cache
    issued,     \* every put that was given a version stamp so far
    pending,    \* the stamped puts in flight, not yet applied to the cache
    lagents,    \* the learning agents: a list of LearningAgent records
    lastCall,   \* the last CALK call: its operation, inputs and result
    steps,      \* the number of CALK calls that changed or read knowledge
    patterns    \* the pattern learner's window: the recent access patterns

vars == <<agents, tasks, now, cache, written, invalidated, lastGet,
          capacity, issued, pending, lagents, lastCall, steps, patterns>>

schedVars == <<agents, tasks, now>>
cacheVars == <<cache, written, invalidated, lastGet>>
putVars == <<capacity, issued, pending>>
calkVars == <<lagents, lastCall, steps>>

(***************************************************************************)
(* Bounds of the model.                                                    *)
(***************************************************************************)
MaxDur == 2
MaxTime == 1
MaxCap == 2
MaxVal == 2
MaxCtx == 1
MaxPuts == 2
MaxCapLen == 3
MaxSteps == 2
MaxKnow == 3

None == <<>>
Some(x) == <<x>>

(***************************************************************************)
(* ATSLP: the agents and the tasks.                                        *)
(* Capabilities are natural numbers; x = 1, y = 2, z = 3.  The three       *)
(* agent profiles are A = 1 {x,y}, B = 2 {y,z}, C = 3 {z}.                 *)
(***************************************************************************)
AgentIds == {1, 2, 3}

CapsOf(id) == CASE id = 1 -> {1, 2}
                [] id = 2 -> {2, 3}
                [] OTHER  -> {3}

\* Two tasks, so that one can be decided while the other holds a reservation.
TaskIds == {1, 2}

\* The required-capability lists a submission may carry (a list: an entry
\* may repeat, and the list may be empty).
ReqLists == {<<>>, <<2>>, <<1, 2>>, <<1, 1>>}

Durations == 1..MaxDur

\* deadline : option nat
Deadlines == {None, Some(0)}

\* Record Agent
Agent(id, load, cap, perf) ==
    [agent_id |-> id, capabilities |-> CapsOf(id), current_load |-> load,
     max_capacity |-> cap, performance_history |-> perf]

\* Record Task
Task(id, req, dur, dl) ==
    [task_id |-> id, complexity |-> 1, required_capabilities |-> req,
     estimated_duration |-> dur, priority |-> 1, deadline |-> dl]

\* length (filter (fun cap => In cap agent.(capabilities)) task.(required_capabilities))
capability_match(agent, task) ==
    LET InCaps(cap) == cap \in agent.capabilities
    IN Len(SelectSeq(task.required_capabilities, InCaps))

calculate_score(agent, task) ==
    LET load_factor == agent.current_load
        performance_factor ==
            IF agent.performance_history = <<>> THEN 1
            ELSE Head(agent.performance_history)
    IN load_factor
       + (Len(task.required_capabilities) - capability_match(agent, task))
       + performance_factor

\* Mutant: the test of the filter inverted (some required capability is not
\* in the agent's set).
is_capable_inverted(agent, task) ==
    \E i \in DOMAIN task.required_capabilities :
        task.required_capabilities[i] \notin agent.capabilities

\* existsb (fun cap => In cap agent.(capabilities)) task.(required_capabilities)
is_capable(agent, task) ==
    \E i \in DOMAIN task.required_capabilities :
        task.required_capabilities[i] \in agent.capabilities

\* Mutant: the fold keeps the agent with the higher score.
RECURSIVE fold_best_highest(_, _, _)
fold_best_highest(rest, best, task) ==
    IF rest = <<>> THEN best
    ELSE fold_best_highest(Tail(rest),
                   IF calculate_score(Head(rest), task) > calculate_score(best, task)
                   THEN Head(rest) ELSE best,
                   task)

\* fold_left (fun best current => if score current <? score best
\*                                then current else best) t h
RECURSIVE fold_best(_, _, _)
fold_best(rest, best, task) ==
    IF rest = <<>> THEN best
    ELSE fold_best(Tail(rest),
                   IF calculate_score(Head(rest), task) < calculate_score(best, task)
                   THEN Head(rest) ELSE best,
                   task)

\* Mutant: only the capable agents with room for the task are candidates.
capable_agents_with_room(ags, task) ==
    LET Capable(agent) ==
            /\ is_capable(agent, task)
            /\ agent.current_load + task.estimated_duration <= agent.max_capacity
    IN SelectSeq(ags, Capable)

\* Mutant: no filter, every registered agent is a candidate.
capable_agents_unfiltered(ags, task) == ags

capable_agents(ags, task) ==
    LET Capable(agent) == is_capable(agent, task)
    IN SelectSeq(ags, Capable)

\* Mutant: with no capable agent, the first registered agent is taken.
select_best_agent_fallback(ags, task) ==
    LET capable == capable_agents(ags, task)
    IN IF capable = <<>>
       THEN IF ags = <<>> THEN None ELSE Some(Head(ags))
       ELSE Some(fold_best(Tail(capable), Head(capable), task))

select_best_agent(ags, task) ==
    LET capable == capable_agents(ags, task)
    IN IF capable = <<>> THEN None
       ELSE Some(fold_best(Tail(capable), Head(capable), task))

update_agent_load(agent, task) ==
    [agent_id |-> agent.agent_id,
     capabilities |-> agent.capabilities,
     current_load |-> agent.current_load + task.estimated_duration,
     max_capacity |-> agent.max_capacity,
     performance_history |-> agent.performance_history]

atslp_schedule(ags, task) ==
    LET sel == select_best_agent(ags, task)
    IN IF sel = None THEN None
       ELSE LET selected_agent == sel[1]
                updated_agent == update_agent_load(selected_agent, task)
                result == [result_task_id |-> task.task_id,
                           result_agent_id |-> selected_agent.agent_id,
                           execution_time |-> task.estimated_duration,
                           success |-> TRUE]
            IN Some([agent |-> updated_agent, result |-> result])

\* The registry with the agent of the same id replaced by its updated record.
StoreAgent(ags, updated) ==
    [i \in DOMAIN ags |->
        IF ags[i].agent_id = updated.agent_id THEN updated ELSE ags[i]]

\* The registry with the load of agent `id` lowered by `dur` (a reservation
\* released or rolled back).
ReleaseLoad(ags, id, dur) ==
    [i \in DOMAIN ags |->
        IF ags[i].agent_id = id
        THEN [ags[i] EXCEPT !.current_load = @ - dur]
        ELSE ags[i]]

(***************************************************************************)
(* ATSLP: the operations.                                                  *)
(***************************************************************************)
\* submit(task): the task is created and atslp_schedule decides it in one
\* step.  Some (agent, result): the task is Scheduled on the agent and the
\* updated agent record is stored (the reservation).  None: the task is
\* Rejected with NoCapableAgent and the registry is left as it was.
Submit(t, req, dur, dl) ==
    /\ t \notin DOMAIN tasks
    /\ LET task == Task(t, req, dur, dl)
           out == atslp_schedule(agents, task)
       IN IF out = None
          THEN /\ tasks' = [u \in DOMAIN tasks \cup {t} |->
                              IF u = t
                              THEN [req |-> task.required_capabilities,
                                    dur |-> task.estimated_duration,
                                    state |-> "Rejected",
                                    error |-> "NoCapableAgent", assigned |-> None]
                              ELSE tasks[u]]
               /\ agents' = agents
          ELSE /\ tasks' = [u \in DOMAIN tasks \cup {t} |->
                              IF u = t
                              THEN [req |-> task.required_capabilities,
                                    dur |-> task.estimated_duration,
                                    state |-> "Scheduled", error |-> "",
                                    assigned |-> Some(out[1].result.result_agent_id)]
                              ELSE tasks[u]]
               /\ agents' = StoreAgent(agents, out[1].agent)
    /\ UNCHANGED <<patterns, now, cacheVars, putVars, calkVars>>

\* The execution pool takes a Scheduled task.
StartExecution(t) ==
    /\ t \in DOMAIN tasks
    /\ tasks[t].state = "Scheduled"
    /\ tasks' = [tasks EXCEPT ![t].state = "Executing"]
    /\ UNCHANGED <<patterns, agents, now, cacheVars, putVars, calkVars>>

\* record_completion(agent_id, task_id, duration, success)
RecordCompletion(t, success) ==
    /\ t \in DOMAIN tasks
    /\ tasks[t].state = "Executing"
    /\ tasks' = [tasks EXCEPT ![t].state = IF success THEN "Completed" ELSE "Failed",
                              ![t].error = IF success THEN "" ELSE "ExecutionFailed"]
    /\ agents' = ReleaseLoad(agents, tasks[t].assigned[1], tasks[t].dur)
    /\ UNCHANGED <<patterns, now, cacheVars, putVars, calkVars>>

\* Mutant: a task is also cancelled while it is executing.
CancelMidExecution(t) ==
    /\ t \in DOMAIN tasks
    /\ tasks[t].state \in {"Scheduled", "Executing"}
    /\ tasks' = [tasks EXCEPT ![t].state = "Rejected", ![t].error = "Cancelled"]
    /\ agents' = ReleaseLoad(agents, tasks[t].assigned[1], tasks[t].dur)
    /\ UNCHANGED <<patterns, now, cacheVars, putVars, calkVars>>

\* Mutant: a cancelled task goes back to Submitted, to be decided again.
CancelRequeue(t) ==
    /\ t \in DOMAIN tasks
    /\ tasks[t].state = "Scheduled"
    /\ tasks' = [tasks EXCEPT ![t].state = "Submitted", ![t].assigned = None]
    /\ agents' = ReleaseLoad(agents, tasks[t].assigned[1], tasks[t].dur)
    /\ UNCHANGED <<patterns, now, cacheVars, putVars, calkVars>>

\* cancel(task): only before execution starts; the task leaves the queue and
\* its reservation is rolled back.
Cancel(t) ==
    /\ t \in DOMAIN tasks
    /\ tasks[t].state = "Scheduled"
    /\ tasks' = [tasks EXCEPT ![t].state = "Rejected", ![t].error = "Cancelled"]
    /\ agents' = ReleaseLoad(agents, tasks[t].assigned[1], tasks[t].dur)
    /\ UNCHANGED <<patterns, now, cacheVars, putVars, calkVars>>

Tick ==
    /\ now < MaxTime
    /\ now' = now + 1
    /\ UNCHANGED <<patterns, agents, tasks, cacheVars, putVars, calkVars>>

(***************************************************************************)
(* HCMPL: the hierarchical cache.                                          *)
(***************************************************************************)
\* One key of each level: get_cache_level is 0, 1, 2 for the keys 1, 2, 3.
CacheKeys == {1, 2, 3}
\* Three keys of one level: get_cache_level is 0 for the keys 1, 5, 7.
SameLevelKeys == {1, 5, 7}
AllKeys == CacheKeys \cup SameLevelKeys
\* The per-level capacity a deployment configures (0: pass-through).
LevelCapacity == 2
\* The length the pattern window is kept at, and the patterns it may hold.
WindowSize == 10
NewPatterns == {1, 2}
CacheValues == 1..MaxVal
Levels == {0, 1, 2}

\* The context of an access: agent_id, task_complexity, time_of_day.
Contexts == [agent_id : 0..MaxCtx, task_complexity : 0..MaxCtx,
             time_of_day : 0..MaxCtx]

\* Mutant: the level also depends on the time bucket of the access.
get_cache_level_by_time(key, agent_id, task_complexity, time_of_day) ==
    IF (key + time_of_day) % 3 = 0 THEN 2
    ELSE IF (key + time_of_day) % 2 = 0 THEN 1 ELSE 0

\* Mutant: the level also depends on the agent that makes the access.
get_cache_level_by_agent(key, agent_id, task_complexity, time_of_day) ==
    IF (key + agent_id) % 3 = 0 THEN 2
    ELSE IF (key + agent_id) % 2 = 0 THEN 1 ELSE 0

get_cache_level(key, agent_id, task_complexity, time_of_day) ==
    IF key % 3 = 0 THEN 2 ELSE IF key % 2 = 0 THEN 1 ELSE 0

\* The value of the item found at the key's level (Miss is None).
cache_get(c, key, agent_id, task_complexity, time_of_day) ==
    LET level == get_cache_level(key, agent_id, task_complexity, time_of_day)
    IN IF c[level][key] = None THEN None ELSE Some(c[level][key][1].value)

cache_put(c, key, value, agent_id, task_complexity, time_of_day) ==
    LET level == get_cache_level(key, agent_id, task_complexity, time_of_day)
    IN [c EXCEPT ![level][key] =
            Some([key |-> key, value |-> value, access_count |-> 1,
                  last_access |-> time_of_day, pattern_score |-> 0])]

\* Mutant: only the first level is cleared.
cache_invalidate_first_level(c, key) ==
    [level \in Levels |->
        IF level = 0 THEN [c[level] EXCEPT ![key] = None] ELSE c[level]]

cache_invalidate(c, key) ==
    [level \in Levels |-> [c[level] EXCEPT ![key] = None]]

\* Mutant: the new pattern is appended whatever the length of the window.
update_pattern_clusters_unbounded(window, new_pattern) ==
    Append(window, new_pattern)

update_pattern_clusters(window, new_pattern) ==
    IF Len(window) < WindowSize THEN Append(window, new_pattern)
    ELSE Append(Tail(window), new_pattern)

\* lru_eviction: the replacement policy the theory defines returns the cache
\* as it is.
lru_eviction(c, level) == c

Put(k, v, ctx) ==
    /\ cache' = cache_put(cache, k, v, ctx.agent_id, ctx.task_complexity,
                          ctx.time_of_day)
    /\ written' = [written EXCEPT ![k] = Some(v)]
    /\ invalidated' = [invalidated EXCEPT ![k] = "no"]
    /\ UNCHANGED <<patterns, lastGet, schedVars, putVars, calkVars>>

Get(k, ctx) ==
    /\ lastGet' = Some([key |-> k,
                        ret |-> cache_get(cache, k, ctx.agent_id,
                                          ctx.task_complexity, ctx.time_of_day),
                        wr |-> written[k],
                        inv |-> invalidated[k]])
    /\ UNCHANGED <<patterns, cache, written, invalidated, schedVars, putVars, calkVars>>

Invalidate(k) ==
    /\ cache' = cache_invalidate(cache, k)
    /\ written' = [written EXCEPT ![k] = None]
    /\ invalidated' = [invalidated EXCEPT ![k] =
                          IF \E level \in Levels : cache[level][k] # None
                          THEN "stored" ELSE "empty"]
    /\ UNCHANGED <<patterns, lastGet, schedVars, putVars, calkVars>>

\* Concurrent puts: a put is given its version stamp when it is issued and
\* reaches the cache later, in any order. cache_put takes no stamp and
\* CacheItem has no field for one.
StampedPut(k, v, stamp) == [key |-> k, value |-> v, stamp |-> stamp]
StampedPuts == [key : CacheKeys, value : CacheValues, stamp : 1..MaxPuts]

IssuePut(k, v) ==
    /\ Cardinality(issued) < MaxPuts
    /\ LET p == StampedPut(k, v, Cardinality(issued) + 1)
       IN /\ issued' = issued \cup {p}
          /\ pending' = pending \cup {p}
    /\ UNCHANGED <<patterns, capacity, cacheVars, schedVars, calkVars>>

ApplyPut(p, ctx) ==
    /\ p \in pending
    /\ cache' = cache_put(cache, p.key, p.value, ctx.agent_id,
                          ctx.task_complexity, ctx.time_of_day)
    /\ written' = [written EXCEPT ![p.key] = Some(p.value)]
    /\ invalidated' = [invalidated EXCEPT ![p.key] = "no"]
    /\ pending' = pending \ {p}
    /\ UNCHANGED <<patterns, lastGet, capacity, issued, schedVars, calkVars>>

(***************************************************************************)
(* The initial states: a registry of distinct agents in any order, every   *)
(* agent idle; no task; an empty cache.                                    *)
(***************************************************************************)
Registries ==
    {s \in UNION {[1..n -> AgentIds] : n \in 0..Cardinality(AgentIds)} :
        \A i, j \in DOMAIN s : i # j => s[i] # s[j]}

PerfHistories == {<<>>, <<0>>}

EmptyCache == [level \in Levels |-> [k \in AllKeys |-> None]]

InitCache ==
    /\ cache = EmptyCache
    /\ written = [k \in AllKeys |-> None]
    /\ invalidated = [k \in AllKeys |-> "no"]
    /\ lastGet = None
    /\ patterns = << >>

\* No stamped put was issued; every level is configured with LevelCapacity.
InitPut ==
    /\ capacity = LevelCapacity
    /\ issued = {}
    /\ pending = {}

\* No learning agent is registered.
InitCalkIdle ==
    /\ lagents = << >>
    /\ lastCall = None
    /\ steps = 0

InitSchedIdle ==
    /\ agents = << >>
    /\ tasks = << >>
    /\ now = 0

InitSched ==
    /\ \E ids \in Registries :
       \E perf \in [AgentIds -> PerfHistories] :
          agents = [i \in DOMAIN ids |-> Agent(ids[i], 0, MaxCap, perf[ids[i]])]
    /\ tasks = << >>
    /\ now = 0

Init == InitSched /\ InitCache /\ InitPut /\ InitCalkIdle

SchedNext ==
    \/ \E t \in TaskIds, req \in ReqLists, dur \in Durations, dl \in Deadlines :
          Submit(t, req, dur, dl)
    \/ \E t \in TaskIds : StartExecution(t)
    \/ \E t \in TaskIds, success \in BOOLEAN : RecordCompletion(t, success)
    \/ \E t \in TaskIds : Cancel(t)
    \/ Tick

SchedSpec == Init /\ [][SchedNext]_vars

InitCacheOnly == InitSchedIdle /\ InitCache /\ InitPut /\ InitCalkIdle

CacheNext ==
    \/ \E k \in CacheKeys, v \in CacheValues, ctx \in Contexts : Put(k, v, ctx)
    \/ \E k \in CacheKeys, ctx \in Contexts : Get(k, ctx)
    \/ \E k \in CacheKeys : Invalidate(k)

CacheSpec == InitCacheOnly /\ [][CacheNext]_vars

\* A cache of one level's keys, configured with capacity 0 or LevelCapacity.
InitEvict ==
    /\ InitSchedIdle /\ InitCache /\ InitCalkIdle
    /\ capacity \in {0, LevelCapacity}
    /\ issued = {}
    /\ pending = {}

EvictNext ==
    \/ \E k \in SameLevelKeys, v \in CacheValues, ctx \in Contexts :
          Put(k, v, ctx)
    \/ \E k \in SameLevelKeys, ctx \in Contexts : Get(k, ctx)

EvictSpec == InitEvict /\ [][EvictNext]_vars

\* Stamped puts issued and applied in any order.
StampNext ==
    \/ \E k \in CacheKeys, v \in CacheValues : IssuePut(k, v)
    \/ \E p \in StampedPuts, ctx \in Contexts : ApplyPut(p, ctx)

StampSpec == InitCacheOnly /\ [][StampNext]_vars

\* The pattern learner: every access hands its pattern to the window.
UpdatePatternClusters(new_pattern) ==
    /\ patterns' = update_pattern_clusters(patterns, new_pattern)
    /\ lastCall' = Some([op |-> "pattern", before |-> patterns,
                         new |-> new_pattern])
    /\ UNCHANGED <<lagents, steps, schedVars, cacheVars, putVars>>

PatternNext == \E new_pattern \in NewPatterns : UpdatePatternClusters(new_pattern)

PatternSpec == InitCacheOnly /\ [][PatternNext]_vars

(***************************************************************************)
(* CALK: collaborative learning.                                           *)
(***************************************************************************)
KnowledgeKeys == {1, 2}
Rewards == {0, 100}
LearningRates == {0, 50, 100, 250}
TransferRates == {100, 200}
Thresholds == {80, 101}
LearnerIds == {1, 2}

\* Subtraction of natural numbers: 100 - learning_rate is 0 above 100.
Monus(a, b) == IF a > b THEN a - b ELSE 0

\* In x l, for a list l.
InList(x, l) == \E i \in DOMAIN l : l[i] = x

LearningAgent(id, caps, kb) ==
    [agent_id |-> id, capabilities |-> caps, knowledge_base |-> kb,
     performance_history |-> << >>, specialization_scores |-> << >>]

\* Mutant: the union counts only the capabilities the first agent lacks.
compute_similarity_union_of_new(agent1, agent2) ==
    LET caps1 == agent1.capabilities
        caps2 == agent2.capabilities
        intersection == SelectSeq(caps1, LAMBDA cap : InList(cap, caps2))
        union == SelectSeq(caps2, LAMBDA cap : ~InList(cap, caps1))
    IN IF Len(union) = 0 THEN 0
       ELSE (Len(intersection) * 100) \div Len(union)

\* Mutant: the overlap is not divided by the size of the union.
compute_similarity_unscaled(agent1, agent2) ==
    LET caps1 == agent1.capabilities
        caps2 == agent2.capabilities
        intersection == SelectSeq(caps1, LAMBDA cap : InList(cap, caps2))
        union == caps1 \o SelectSeq(caps2, LAMBDA cap : ~InList(cap, caps1))
    IN IF Len(union) = 0 THEN 0 ELSE Len(intersection) * 100

compute_similarity(agent1, agent2) ==
    LET caps1 == agent1.capabilities
        caps2 == agent2.capabilities
        intersection == SelectSeq(caps1, LAMBDA cap : InList(cap, caps2))
        union == caps1 \o SelectSeq(caps2, LAMBDA cap : ~InList(cap, caps1))
    IN IF Len(union) = 0 THEN 0
       ELSE (Len(intersection) * 100) \div Len(union)

get_similar_agents(agent, others, threshold) ==
    SelectSeq(others,
              LAMBDA other_agent :
                  /\ agent.agent_id # other_agent.agent_id
                  /\ compute_similarity(agent, other_agent) >= threshold)

\* Mutant: the weights of the target's and the source's value are exchanged.
transfer_knowledge_swapped(source, target, key, learning_rate) ==
    LET source_value == source.knowledge_base[key]
        target_value == target.knowledge_base[key]
        new_value == (target_value * learning_rate
                      + source_value * Monus(100, learning_rate)) \div 100
    IN [target EXCEPT !.knowledge_base[key] = new_value]

transfer_knowledge(source, target, key, learning_rate) ==
    LET source_value == source.knowledge_base[key]
        target_value == target.knowledge_base[key]
        new_value == (target_value * Monus(100, learning_rate)
                      + source_value * learning_rate) \div 100
    IN [target EXCEPT !.knowledge_base[key] = new_value]

\* Mutant: the weights of the old value and of the reward are exchanged.
update_knowledge_swapped(agent, key, reward, learning_rate) ==
    LET current_value == agent.knowledge_base[key]
        new_value == (current_value * learning_rate
                      + reward * Monus(100, learning_rate)) \div 100
    IN [agent EXCEPT !.knowledge_base[key] = new_value]

\* Mutant: the reward's term is not divided by 100.
update_knowledge_undivided(agent, key, reward, learning_rate) ==
    LET current_value == agent.knowledge_base[key]
        new_value == (current_value * Monus(100, learning_rate)) \div 100
                     + reward * learning_rate
    IN [agent EXCEPT !.knowledge_base[key] = new_value]

\* Mutant: every key of the knowledge base takes the new value.
update_knowledge_all_keys(agent, key, reward, learning_rate) ==
    LET current_value == agent.knowledge_base[key]
        new_value == (current_value * Monus(100, learning_rate)
                      + reward * learning_rate) \div 100
    IN [agent EXCEPT !.knowledge_base =
                         [k \in DOMAIN agent.knowledge_base |-> new_value]]

\* Mutant: the division by 100 rounds up.
update_knowledge_rounded_up(agent, key, reward, learning_rate) ==
    LET current_value == agent.knowledge_base[key]
        new_value == (current_value * Monus(100, learning_rate)
                      + reward * learning_rate + 99) \div 100
    IN [agent EXCEPT !.knowledge_base[key] = new_value]

\* Mutant: the old value keeps its full weight.
update_knowledge_additive(agent, key, reward, learning_rate) ==
    LET current_value == agent.knowledge_base[key]
        new_value == (current_value * 100 + reward * learning_rate) \div 100
    IN [agent EXCEPT !.knowledge_base[key] = new_value]

update_knowledge(agent, key, reward, learning_rate) ==
    LET current_value == agent.knowledge_base[key]
        new_value == (current_value * Monus(100, learning_rate)
                      + reward * learning_rate) \div 100
    IN [agent EXCEPT !.knowledge_base[key] = new_value]

\* Mutant: every transfer has the similar agent as its source.
RECURSIVE fold_transfer_from_peer(_, _, _, _, _)
fold_transfer_from_peer(similar_agents, current_agent, updated_agent, key, transfer_rate) ==
    IF similar_agents = << >> THEN current_agent
    ELSE LET similarity == compute_similarity(updated_agent, Head(similar_agents))
             effective_transfer_rate == (transfer_rate * similarity) \div 100
         IN fold_transfer_from_peer(Tail(similar_agents),
                          transfer_knowledge(Head(similar_agents), current_agent,
                                             key, effective_transfer_rate),
                          updated_agent, key, transfer_rate)

\* fold_left of collaborative_learning_update: every transfer has the
\* updated agent as its source and the accumulator as its target.
RECURSIVE fold_transfer(_, _, _, _, _)
fold_transfer(similar_agents, current_agent, updated_agent, key, transfer_rate) ==
    IF similar_agents = << >> THEN current_agent
    ELSE LET similarity == compute_similarity(updated_agent, Head(similar_agents))
             effective_transfer_rate == (transfer_rate * similarity) \div 100
         IN fold_transfer(Tail(similar_agents),
                          transfer_knowledge(updated_agent, current_agent, key,
                                             effective_transfer_rate),
                          updated_agent, key, transfer_rate)

\* Mutant: the fold starts from the agent as it was before its local update.
collaborative_learning_update_transfers_only(agent, others, key, reward, learning_rate, transfer_rate, similarity_threshold) ==
    LET updated_agent == update_knowledge(agent, key, reward, learning_rate)
        similar_agents == get_similar_agents(updated_agent, others,
                                             similarity_threshold)
    IN fold_transfer(similar_agents, agent, updated_agent, key, transfer_rate)

collaborative_learning_update(agent, others, key, reward, learning_rate, transfer_rate, similarity_threshold) ==
    LET updated_agent == update_knowledge(agent, key, reward, learning_rate)
        similar_agents == get_similar_agents(updated_agent, others,
                                             similarity_threshold)
    IN fold_transfer(similar_agents, updated_agent, updated_agent, key,
                     transfer_rate)

\* The agent a call returns replaces the registered agent of the same id.
StoreLearner(l, r) ==
    [i \in DOMAIN l |-> IF l[i].agent_id = r.agent_id THEN r ELSE l[i]]

ComputeSimilarity(i, j) ==
    /\ i \in DOMAIN lagents
    /\ j \in DOMAIN lagents
    /\ lastCall' = Some([op |-> "similarity", a |-> i, b |-> j,
                         score |-> compute_similarity(lagents[i], lagents[j])])
    /\ UNCHANGED <<patterns, lagents, steps, schedVars, cacheVars, putVars>>

UpdateKnowledge(i, key, reward, learning_rate) ==
    /\ i \in DOMAIN lagents
    /\ steps < MaxSteps
    /\ LET r == update_knowledge(lagents[i], key, reward, learning_rate)
       IN /\ lagents' = StoreLearner(lagents, r)
          /\ lastCall' = Some([op |-> "update", agent |-> i, key |-> key,
                               before |-> lagents[i],
                               old |-> lagents[i].knowledge_base[key],
                               reward |-> reward, lr |-> learning_rate,
                               new |-> r.knowledge_base[key]])
    /\ steps' = steps + 1
    /\ UNCHANGED <<patterns, schedVars, cacheVars, putVars>>

Propagate(i, key, reward, learning_rate, transfer_rate, threshold) ==
    /\ i \in DOMAIN lagents
    /\ steps < MaxSteps
    /\ LET r == collaborative_learning_update(lagents[i], lagents, key, reward,
                                              learning_rate, transfer_rate,
                                              threshold)
       IN /\ lagents' = StoreLearner(lagents, r)
          /\ lastCall' = Some([op |-> "propagate", agent |-> i, key |-> key,
                               before |-> lagents[i],
                               old |-> lagents[i].knowledge_base[key],
                               reward |-> reward, lr |-> learning_rate,
                               transfer_rate |-> transfer_rate,
                               threshold |-> threshold,
                               new |-> r.knowledge_base[key]])
    /\ steps' = steps + 1
    /\ UNCHANGED <<patterns, schedVars, cacheVars, putVars>>

TransferKnowledge(i, j, key, learning_rate) ==
    /\ i \in DOMAIN lagents
    /\ j \in DOMAIN lagents
    /\ steps < MaxSteps
    /\ LET r == transfer_knowledge(lagents[i], lagents[j], key, learning_rate)
       IN /\ lagents' = StoreLearner(lagents, r)
          /\ lastCall' = Some([op |-> "transfer", source |-> i, target |-> j,
                               key |-> key,
                               source_value |-> lagents[i].knowledge_base[key],
                               target_value |-> lagents[j].knowledge_base[key],
                               lr |-> learning_rate,
                               new |-> r.knowledge_base[key]])
    /\ steps' = steps + 1
    /\ UNCHANGED <<patterns, schedVars, cacheVars, putVars>>

\* Capability lists: every list of at most MaxCapLen tags, repeats included.
CapTags == {1, 2}
CapLists == UNION {[1..n -> CapTags] : n \in 0..MaxCapLen}

ZeroKnowledge == [k \in KnowledgeKeys |-> 0]

\* Two agents with any capability lists, for the similarity score.
InitSim ==
    /\ InitSchedIdle /\ InitCache /\ InitPut
    /\ \E caps \in [LearnerIds -> CapLists] :
          lagents = [i \in LearnerIds |-> LearningAgent(i, caps[i], ZeroKnowledge)]
    /\ lastCall = None
    /\ steps = 0

SimNext == \E i, j \in LearnerIds : ComputeSimilarity(i, j)

SimSpec == InitSim /\ [][SimNext]_vars

\* Two agents whose similarity is 50 or 100, with no knowledge yet.
TeamCaps == {<<1>>, <<1, 2>>}

InitCalk ==
    /\ InitSchedIdle /\ InitCache /\ InitPut
    /\ \E caps \in [LearnerIds -> TeamCaps] :
          lagents = [i \in LearnerIds |-> LearningAgent(i, caps[i], ZeroKnowledge)]
    /\ lastCall = None
    /\ steps = 0

CalkNext ==
    \/ \E i \in LearnerIds, key \in KnowledgeKeys, reward \in Rewards,
          learning_rate \in LearningRates :
          UpdateKnowledge(i, key, reward, learning_rate)
    \/ \E i \in LearnerIds, key \in KnowledgeKeys, reward \in Rewards,
          learning_rate \in LearningRates, transfer_rate \in TransferRates,
          threshold \in Thresholds :
          Propagate(i, key, reward, learning_rate, transfer_rate, threshold)

CalkSpec == InitCalk /\ [][CalkNext]_vars

\* Small knowledge values and rewards, where the rounding of the integer
\* division shows: two agents with any small value at the first key.
SmallValues == 0..MaxKnow
RateKey == 1

InitRate ==
    /\ InitSchedIdle /\ InitCache /\ InitPut
    /\ \E v \in [LearnerIds -> SmallValues] :
          lagents = [i \in LearnerIds |->
                        LearningAgent(i, <<1>>,
                                      [ZeroKnowledge EXCEPT ![RateKey] = v[i]])]
    /\ lastCall = None
    /\ steps = 0

RateNext ==
    \/ \E i \in LearnerIds, reward \in SmallValues,
          learning_rate \in LearningRates :
          UpdateKnowledge(i, RateKey, reward, learning_rate)
    \/ \E i, j \in LearnerIds, learning_rate \in LearningRates :
          TransferKnowledge(i, j, RateKey, learning_rate)

RateSpec == InitRate /\ [][RateNext]_vars

(***************************************************************************)
(* Helpers of the properties.                                              *)
(***************************************************************************)
Range(seq) == {seq[i] : i \in DOMAIN seq}

AgentById(id) == CHOOSE a \in Range(agents) : a.agent_id = id

\* Some registered agent has a capability of the required list.
SomeCapable(ags, req) ==
    \E a \in Range(ags) : Range(req) \cap a.capabilities # {}

\* Every agent with a capability of the required list lacks room for dur.
AllCapableFull(ags, req, dur) ==
    \A a \in Range(ags) :
        Range(req) \cap a.capabilities # {} =>
            a.current_load + dur > a.max_capacity

Assigned == {t \in DOMAIN tasks : tasks[t].assigned # None}

Terminal == {"Completed", "Failed", "Rejected"}

Rank(state) == CASE state = "Submitted" -> 0
                 [] state = "Scheduled" -> 1
                 [] state = "Executing" -> 2
                 [] OTHER -> 3

\* The agent the tie-break rule names: of the capable agents with the best
\* score, the one with the lowest current_load, and of those the lowest id.
RuleChoice(ags, task) ==
    LET capable == {a \in Range(ags) : Range(task.required_capabilities)
                                          \cap a.capabilities # {}}
        best == {a \in capable : \A b \in capable :
                    calculate_score(a, task) <= calculate_score(b, task)}
        idle == {a \in best : \A b \in best : a.current_load <= b.current_load}
    IN CHOOSE a \in idle : \A b \in idle : a.agent_id <= b.agent_id

(***************************************************************************)
(* Properties of the scheduler.                                            *)
(***************************************************************************)
\* C1: in every reachable state every agent's load, reservations included,
\* is at most its max_capacity.
C1_NoAgentOverload ==
    \A i \in DOMAIN agents : agents[i].current_load <= agents[i].max_capacity

\* C2 (as stated): every capability a task requires is in the capability set
\* of the agent the task was assigned to.
C2_AllRequiredCovered ==
    \A t \in Assigned :
        Range(tasks[t].req) \subseteq AgentById(tasks[t].assigned[1]).capabilities

\* C2 (amended): the agent a task was assigned to holds at least one entry of
\* the task's required list (its capability_match is at least 1); the other
\* required capabilities need not be in its set.
C2_SomeRequiredCovered ==
    \A t \in Assigned :
        capability_match(AgentById(tasks[t].assigned[1]),
                         Task(t, tasks[t].req, tasks[t].dur, None)) >= 1

\* A task requiring x and y sits on agent B, which has y but not x.
C2_Witness ==
    \E t \in Assigned :
        /\ tasks[t].req = <<1, 2>>
        /\ tasks[t].assigned = Some(2)

\* C3: the agent of every assignment shares a capability with the task, and
\* with A{x,y}, B{y,z}, C{z} registered a task requiring [y] goes to A or B,
\* never to C, whatever the loads and histories.
C3_NeverDisjoint ==
    /\ \A t \in Assigned :
          Range(tasks[t].req) \cap CapsOf(tasks[t].assigned[1]) # {}
    /\ \A t \in Assigned :
          tasks[t].req = <<2>> => tasks[t].assigned[1] \in {1, 2}
    /\ \A dur \in Durations :
          LET sel == select_best_agent(agents, Task(1, <<2>>, dur, None))
          IN sel # None => sel[1].agent_id \in {1, 2}

\* All three agents are registered, C first, and a task requiring [y] was
\* assigned while another reservation was already held.
C3_Witness ==
    /\ Len(agents) = 3
    /\ agents[1].agent_id = 3
    /\ \E t \in Assigned : tasks[t].req = <<2>>
    /\ Cardinality(Assigned) = 2

\* C4: a submit with no capable agent (an empty registry included) ends
\* Rejected with NoCapableAgent, assigns nothing and changes no agent; the
\* task is never decided again.
C4_NoCapableAgent ==
    [][/\ \A t \in DOMAIN tasks' \ DOMAIN tasks :
            ~SomeCapable(agents, tasks'[t].req) =>
                /\ tasks'[t].state = "Rejected"
                /\ tasks'[t].error = "NoCapableAgent"
                /\ tasks'[t].assigned = None
                /\ agents' = agents
       /\ \A t \in DOMAIN tasks :
            tasks[t].error = "NoCapableAgent" =>
                (t \in DOMAIN tasks' /\ tasks'[t] = tasks[t])
      ]_vars

\* A task was rejected for want of a capable agent in a registry that is not
\* empty and holds a reservation of another task.
C4_Witness ==
    /\ Len(agents) > 0
    /\ \E t \in DOMAIN tasks : tasks[t].error = "NoCapableAgent"
    /\ Assigned # {}

\* C5: a submit for which some agent is capable but no capable agent has
\* room for the task's duration returns Overloaded, assigns nothing and
\* reserves nothing.
C5_OverloadedWhenFull ==
    [][\A t \in TaskIds, req \in ReqLists, dur \in Durations, dl \in Deadlines :
            (/\ Submit(t, req, dur, dl)
             /\ SomeCapable(agents, req)
             /\ AllCapableFull(agents, req, dur)
             /\ (dl = None \/ dl[1] >= now)) =>
                /\ tasks'[t].error = "Overloaded"
                /\ tasks'[t].assigned = None
                /\ agents' = agents
      ]_vars

\* C6: a submit whose deadline is already in the past fails at once (the
\* task ends in a failed state, whatever the name of the failure), assigns
\* nothing and changes no agent, whatever the agents are.
C6_DeadlineExceeded ==
    [][\A t \in TaskIds, req \in ReqLists, dur \in Durations, dl \in Deadlines :
            (Submit(t, req, dur, dl) /\ dl # None /\ dl[1] < now) =>
                /\ tasks'[t].state \in {"Failed", "Rejected"}
                /\ tasks'[t].assigned = None
                /\ agents' = agents
      ]_vars

\* C7: for every registry and every task, the agent selected is the capable
\* agent of best score, ties going to the lowest current_load and then to the
\* lowest agent id, whatever the order of the registry.
C7_DeterministicTieBreak ==
    \A req \in ReqLists, dur \in Durations :
        LET task == Task(1, req, dur, None)
            sel == select_best_agent(agents, task)
        IN sel # None => sel[1].agent_id = RuleChoice(agents, task).agent_id

\* C8: a task's state only moves forward, a terminal state is final, and a
\* task becoming Rejected or Failed leaves every other task's record (state,
\* assignment, reserved duration) as it was.
C8_ForwardOnly ==
    [][/\ \A t \in DOMAIN tasks :
            /\ t \in DOMAIN tasks'
            /\ Rank(tasks'[t].state) >= Rank(tasks[t].state)
            /\ (tasks[t].state \in Terminal => tasks'[t] = tasks[t])
            /\ ((tasks[t].state \notin Terminal
                 /\ tasks'[t].state \in {"Rejected", "Failed"}) =>
                    \A u \in DOMAIN tasks \ {t} : tasks'[u] = tasks[u])
       /\ \A t \in DOMAIN tasks' \ DOMAIN tasks :
            tasks'[t].state \in {"Rejected", "Failed"} =>
                /\ \A u \in DOMAIN tasks : tasks'[u] = tasks[u]
                /\ agents' = agents
      ]_vars

\* One task failed in execution and one was cancelled, after both had been
\* scheduled.
C8_Witness ==
    \E t, u \in DOMAIN tasks :
        /\ tasks[t].state = "Failed"
        /\ tasks[u].state = "Rejected"
        /\ tasks[u].error = "Cancelled"

(***************************************************************************)
(* Properties of the cache.                                                *)
(***************************************************************************)
\* C9: a key that was put and not invalidated since reads back the value of
\* its last put, under every context of the get (not Miss, not an older
\* value), and so did the last get of such a key.
C9_ReadYourWrites ==
    /\ \A k \in CacheKeys :
          written[k] # None =>
              \A ctx \in Contexts :
                  cache_get(cache, k, ctx.agent_id, ctx.task_complexity,
                            ctx.time_of_day) = written[k]
    /\ (lastGet # None /\ lastGet[1].wr # None) => lastGet[1].ret = lastGet[1].wr

\* A get of a key whose last put stored 2 returned 2, while another key
\* holds 1.
C9_Witness ==
    /\ lastGet # None
    /\ lastGet[1].wr = Some(2)
    /\ lastGet[1].ret = Some(2)
    /\ \E j \in CacheKeys \ {lastGet[1].key} : written[j] = Some(1)

\* C10: a key invalidated and not put again since is a Miss for a get under
\* every context and is stored in no level, and the last get of such a key
\* returned Miss.
C10_InvalidateThenMiss ==
    /\ \A k \in CacheKeys :
          invalidated[k] # "no" =>
              /\ \A ctx \in Contexts :
                    cache_get(cache, k, ctx.agent_id, ctx.task_complexity,
                              ctx.time_of_day) = None
              /\ \A level \in Levels : cache[level][k] = None
    /\ (lastGet # None /\ lastGet[1].inv # "no") => lastGet[1].ret = None

\* A key of the third level was stored, invalidated and then read: Miss.
C10_Witness ==
    /\ lastGet # None
    /\ lastGet[1].inv = "stored"
    /\ lastGet[1].ret = None
    /\ get_cache_level(lastGet[1].key, 0, 0, 0) = 2

\* The levels that hold an item for the key, and the keys a level holds.
LevelsHolding(k) == {level \in Levels : cache[level][k] # None}
KeysHeld(level) == {k \in AllKeys : cache[level][k] # None}

\* C11: a key is never held by two levels; a key that was put and not
\* invalidated since is held by exactly one level, the level computed for it
\* under every context, so putting it again leaves no copy elsewhere.
C11_OneLevelPerKey ==
    \A k \in CacheKeys :
        /\ Cardinality(LevelsHolding(k)) <= 1
        /\ written[k] # None => Cardinality(LevelsHolding(k)) = 1
        /\ \A ctx \in Contexts :
              LevelsHolding(k) \subseteq
                 {get_cache_level(k, ctx.agent_id, ctx.task_complexity,
                                  ctx.time_of_day)}

\* A key that was put with value 1, read, and put again with value 2 in the
\* later time bucket is held once, with the second put's item.
C11_Witness ==
    \E k \in CacheKeys, level \in Levels :
        /\ lastGet # None
        /\ lastGet[1].key = k
        /\ lastGet[1].ret = Some(1)
        /\ written[k] = Some(2)
        /\ LevelsHolding(k) = {level}
        /\ cache[level][k][1].value = 2
        /\ cache[level][k][1].last_access = 1

\* C12: a level configured with a positive capacity never holds more items
\* than its capacity: a put into a full level evicts the item with the
\* minimum eviction score (with capacity 2, after the keys 1, 5, 7 were put
\* into level 0 the level holds two of them).
C12_LevelWithinCapacity ==
    capacity > 0 => \A level \in Levels : Cardinality(KeysHeld(level)) <= capacity

\* C13: with capacity zero the cache is a pass-through: no level stores
\* anything and every get is a Miss.
C13_ZeroCapacityPassThrough ==
    capacity = 0 =>
        /\ \A level \in Levels : KeysHeld(level) = {}
        /\ lastGet # None => lastGet[1].ret = None

\* The applied put of a key that carries the highest stamp.
AppliedPuts(k) == {p \in issued \ pending : p.key = k}
HighestApplied(k) ==
    CHOOSE p \in AppliedPuts(k) : \A q \in AppliedPuts(k) : q.stamp <= p.stamp

\* C14: stamps of the puts on a key are distinct, and the value stored for a
\* key is the value of the applied put with the highest stamp: a put with a
\* lower stamp never overwrites one with a higher stamp.
C14_HighestStampWins ==
    /\ \A p, q \in issued : p.stamp = q.stamp => p = q
    /\ \A k \in CacheKeys :
          AppliedPuts(k) # {} =>
              cache_get(cache, k, 0, 0, 0) = Some(HighestApplied(k).value)

\* C15: the similarity of two agents does not depend on their order: the
\* score a call returned for (A, B) is the score of (B, A).
C15_SimilaritySymmetric ==
    (lastCall # None /\ lastCall[1].op = "similarity") =>
        lastCall[1].score
            = compute_similarity(lagents[lastCall[1].b], lagents[lastCall[1].a])

\* C16: every similarity score lies in 0..100, and two agents with empty
\* capability lists score 0.
C16_SimilarityBounds ==
    /\ \A i, j \in DOMAIN lagents :
          LET score == compute_similarity(lagents[i], lagents[j])
          IN /\ 0 <= score
             /\ score <= 100
             /\ (lagents[i].capabilities = << >>
                 /\ lagents[j].capabilities = << >>) => score = 0
    /\ (lastCall # None /\ lastCall[1].op = "similarity") =>
          (0 <= lastCall[1].score /\ lastCall[1].score <= 100)

\* The score of two distinct agents with empty capability lists was computed.
C16_Witness ==
    /\ lastCall # None
    /\ lastCall[1].op = "similarity"
    /\ lastCall[1].a # lastCall[1].b
    /\ lagents[lastCall[1].a].capabilities = << >>
    /\ lagents[lastCall[1].b].capabilities = << >>
    /\ lastCall[1].score = 0

\* The last call, when it was update_knowledge.
IsUpdate == lastCall # None /\ lastCall[1].op = "update"
Min(a, b) == IF a <= b THEN a ELSE b
Max(a, b) == IF a >= b THEN a ELSE b
Dist(a, b) == IF a >= b THEN a - b ELSE b - a

\* C17: update_knowledge sets the key's value to
\* (old * (100 - lr) + reward * lr) / 100, rounded down, the subtraction being
\* that of natural numbers; with lr 50, old 0 and reward 100 the value is 50.
C17_UpdateFormula ==
    IsUpdate =>
        LET c == lastCall[1]
        IN /\ c.new = (c.old * Monus(100, c.lr) + c.reward * c.lr) \div 100
           /\ c.lr <= 100 =>
                 /\ 100 * c.new <= c.old * (100 - c.lr) + c.reward * c.lr
                 /\ c.old * (100 - c.lr) + c.reward * c.lr < 100 * (c.new + 1)
           /\ (c.lr = 50 /\ c.old = 0 /\ c.reward = 100) => c.new = 50
           /\ lagents[c.agent].knowledge_base[c.key] = c.new

\* update_knowledge with lr 50 and reward 100 on a value of 0 stored 50.
C17_Witness ==
    /\ IsUpdate
    /\ lastCall[1].lr = 50
    /\ lastCall[1].old = 0
    /\ lastCall[1].reward = 100
    /\ lagents[lastCall[1].agent].knowledge_base[lastCall[1].key] = 50

\* C18 as stated: after every update_knowledge the new value lies between
\* min(old, reward) and max(old, reward), whatever the learning rate.
C18_BetweenOldAndReward ==
    IsUpdate =>
        LET c == lastCall[1]
        IN /\ Min(c.old, c.reward) <= c.new
           /\ c.new <= Max(c.old, c.reward)

\* C18 amended: the new value lies between min(old, reward) and
\* max(old, reward) when the learning rate is at most 100.
C18_BetweenUpTo100 ==
    (IsUpdate /\ lastCall[1].lr <= 100) =>
        LET c == lastCall[1]
        IN /\ Min(c.old, c.reward) <= c.new
           /\ c.new <= Max(c.old, c.reward)

\* An update with a learning rate of at most 100 moved a value down towards
\* a smaller reward, strictly between the two.
C18_Witness ==
    /\ IsUpdate
    /\ lastCall[1].lr <= 100
    /\ lastCall[1].reward < lastCall[1].new
    /\ lastCall[1].new < lastCall[1].old

\* C19 as stated: every update_knowledge call leaves the value at most as
\* far from the reward as it was, whatever the learning rate.
C19_DistanceNonIncreasing ==
    IsUpdate =>
        Dist(lastCall[1].new, lastCall[1].reward)
            <= Dist(lastCall[1].old, lastCall[1].reward)

\* C19 amended: with a learning rate of at most 100, every update_knowledge
\* call leaves the value at most as far from the reward as it was.
C19_DistanceUpTo100 ==
    (IsUpdate /\ lastCall[1].lr <= 100) =>
        Dist(lastCall[1].new, lastCall[1].reward)
            <= Dist(lastCall[1].old, lastCall[1].reward)

\* A second update with the same reward 100 moved the value from 50 to 75.
C19_Witness ==
    /\ IsUpdate
    /\ steps = 2
    /\ lastCall[1].reward = 100
    /\ lastCall[1].lr = 50
    /\ lastCall[1].old = 50
    /\ lastCall[1].new = 75

\* The last call, when it was propagate, and whether a peer of its agent
\* reaches its threshold.
IsPropagate == lastCall # None /\ lastCall[1].op = "propagate"
PeerReaches(l, i, threshold) ==
    \E j \in DOMAIN l :
        /\ l[j].agent_id # l[i].agent_id
        /\ compute_similarity(l[i], l[j]) >= threshold

\* C20: a propagate call with threshold 101, or one in which no peer reaches
\* the threshold, changes no peer's knowledge_base and is carried out: the
\* agent itself ends with the result of its local update.
C20_NoPeerNoChange ==
    [][(steps' = steps + 1 /\ lastCall'[1].op = "propagate") =>
          LET c == lastCall'[1]
          IN (c.threshold = 101 \/ ~PeerReaches(lagents, c.agent, c.threshold)) =>
                /\ \A j \in DOMAIN lagents :
                      j # c.agent => lagents'[j] = lagents[j]
                /\ lagents'[c.agent] =
                      update_knowledge(lagents[c.agent], c.key, c.reward, c.lr)
                /\ DOMAIN lagents' = DOMAIN lagents]_vars

\* A propagate call with threshold 101 between two agents of similarity 100
\* raised the agent's own value and left the peer's value at 0.
C20_Witness ==
    /\ IsPropagate
    /\ lastCall[1].threshold = 101
    /\ lastCall[1].new > 0
    /\ lagents[lastCall[1].agent].knowledge_base[lastCall[1].key] = lastCall[1].new
    /\ \A j \in DOMAIN lagents :
          j # lastCall[1].agent =>
             /\ compute_similarity(lagents[lastCall[1].agent], lagents[j]) = 100
             /\ lagents[j].knowledge_base = ZeroKnowledge

\* The effective rate of a transfer to peer j of agent i, and the value the
\* interpolation formula gives the peer from the source value src.
EffectiveRate(l, i, j, transfer_rate) ==
    (transfer_rate * compute_similarity(l[i], l[j])) \div 100
PeerTarget(oldP, src, r) == (oldP * Monus(100, r) + src * r) \div 100

\* C21: a propagate call sets the value of every peer whose similarity to
\* the agent reaches the threshold to (oldP*(100-r) + src*r)/100, with
\* r = transfer_rate*similarity/100 and src the agent's just-updated value;
\* every peer below the threshold keeps its value.
C21_PeersReceiveTransfer ==
    [][(steps' = steps + 1 /\ lastCall'[1].op = "propagate") =>
          LET c == lastCall'[1]
              src == update_knowledge(lagents[c.agent], c.key, c.reward,
                                      c.lr).knowledge_base[c.key]
          IN \A j \in DOMAIN lagents :
                lagents[j].agent_id # lagents[c.agent].agent_id =>
                   lagents'[j].knowledge_base[c.key] =
                      IF compute_similarity(lagents[c.agent], lagents[j])
                            >= c.threshold
                      THEN PeerTarget(lagents[j].knowledge_base[c.key], src,
                                      EffectiveRate(lagents, c.agent, j,
                                                    c.transfer_rate))
                      ELSE lagents[j].knowledge_base[c.key]]_vars

\* The capacity reserved on agent id by the tasks of tk that hold a
\* reservation (Scheduled or Executing).
Holding(tk, id) ==
    {t \in DOMAIN tk : /\ tk[t].state \in {"Scheduled", "Executing"}
                       /\ tk[t].assigned = Some(id)}
RECURSIVE SumDur(_, _)
SumDur(tk, S) ==
    IF S = {} THEN 0
    ELSE LET t == CHOOSE u \in S : TRUE
         IN tk[t].dur + SumDur(tk, S \ {t})
ReservedOn(tk, id) == SumDur(tk, Holding(tk, id))

\* C22: a task is cancelled only from Scheduled (it has not started
\* executing); the cancel takes it out of the queue and lowers its agent's
\* load by the task's duration, so the load is again what the remaining
\* reservations add up to (the value before the task's submit), every
\* other agent keeping its load.  A task that is Executing is never
\* cancelled.
C22_CancelRollsBack ==
    [][\A t \in DOMAIN tasks :
          /\ (tasks'[t].error = "Cancelled" /\ tasks[t].error # "Cancelled") =>
                /\ tasks[t].state = "Scheduled"
                /\ tasks'[t].state = "Rejected"
                /\ \A i \in DOMAIN agents :
                      /\ agents'[i].current_load =
                            IF agents[i].agent_id = tasks[t].assigned[1]
                            THEN agents[i].current_load - tasks[t].dur
                            ELSE agents[i].current_load
                      /\ agents'[i].current_load =
                            ReservedOn(tasks', agents[i].agent_id)
          /\ tasks[t].state = "Executing" =>
                /\ tasks'[t].error # "Cancelled"
                /\ tasks'[t].state \in {"Executing", "Completed", "Failed"}]_vars

\* A task was cancelled and its agent is idle again while the other task,
\* on another agent, is executing.
C22_Witness ==
    \E t, u \in DOMAIN tasks :
        /\ tasks[t].error = "Cancelled"
        /\ AgentById(tasks[t].assigned[1]).current_load = 0
        /\ tasks[u].state = "Executing"
        /\ tasks[u].assigned # tasks[t].assigned

\* The task a step submits, if any.
Submitted == DOMAIN tasks' \ DOMAIN tasks

IsTransfer == lastCall # None /\ lastCall[1].op = "transfer"

\* C25: for 0 < lr <= 100, transfer_knowledge moves the target's value by
\* at least lr * |source - target| / 100.
C25_TransferEfficiency ==
    (IsTransfer /\ 0 < lastCall[1].lr /\ lastCall[1].lr <= 100) =>
        LET c == lastCall[1]
        IN /\ Dist(c.new, c.target_value)
                >= (c.lr * Dist(c.source_value, c.target_value)) \div 100
           /\ lagents[c.target].knowledge_base[c.key] = c.new

\* A transfer between two agents moved the target's value 3 to 2, towards
\* the source's value 1, at lr 50: by 1 = 50 * 2 / 100.
C25_Witness ==
    /\ IsTransfer
    /\ lastCall[1].source # lastCall[1].target
    /\ lastCall[1].lr = 50
    /\ lastCall[1].source_value = 1
    /\ lastCall[1].target_value = 3
    /\ lastCall[1].new = 2

C29_KnowledgePreservation ==
    IsUpdate =>
        LET c == lastCall[1]
            a == lagents[c.agent]
        IN /\ \A k \in KnowledgeKeys :
                 k # c.key => a.knowledge_base[k] = c.before.knowledge_base[k]
           /\ a.agent_id = c.before.agent_id
           /\ a.capabilities = c.before.capabilities
           /\ a.performance_history = c.before.performance_history
           /\ a.specialization_scores = c.before.specialization_scores

\* An update changed the value of one key of an agent whose other key holds
\* a different, non-zero value.
C29_Witness ==
    /\ IsUpdate
    /\ lastCall[1].new # lastCall[1].old
    /\ \E k \in KnowledgeKeys :
          /\ k # lastCall[1].key
          /\ lagents[lastCall[1].agent].knowledge_base[k] > 0
          /\ lagents[lastCall[1].agent].knowledge_base[k] # lastCall[1].new

\* C30: after a propagate call with transfer_rate <= 100, whatever the list
\* and the threshold, the agent's record is the one update_knowledge alone
\* produces: the key holds the locally updated value and every other key is
\* unchanged.
C30_LocalUpdateUndisturbed ==
    (IsPropagate /\ lastCall[1].transfer_rate <= 100) =>
        LET c == lastCall[1]
        IN /\ lagents[c.agent] =
                 update_knowledge(c.before, c.key, c.reward, c.lr)
           /\ \A k \in KnowledgeKeys :
                 k # c.key => lagents[c.agent].knowledge_base[k]
                                 = c.before.knowledge_base[k]

\* A propagate call with transfer_rate 100 and a peer of similarity 100
\* above the threshold 80, holding another value, left the agent with its
\* locally updated value.
C30_Witness ==
    /\ IsPropagate
    /\ lastCall[1].transfer_rate = 100
    /\ lastCall[1].threshold = 80
    /\ lastCall[1].new # lastCall[1].old
    /\ lagents[lastCall[1].agent].knowledge_base[lastCall[1].key] = lastCall[1].new
    /\ \E j \in DOMAIN lagents :
          /\ j # lastCall[1].agent
          /\ compute_similarity(lagents[lastCall[1].agent], lagents[j]) = 100
          /\ lagents[j].knowledge_base[lastCall[1].key] # lastCall[1].new

\* The last call, when it was update_pattern_clusters.
IsPattern == lastCall # None /\ lastCall[1].op = "pattern"

====
